---------------------------- MODULE Spec2Model ----------------------------
(***************************************************************************)
(* Model of custom_components/nswairquality/sensor.py: the throttled       *)
(* forecast cache (BOMForecastData), its field extraction (get_reading,    *)
(* get_start_time_local), the nearest-product lookup (closest_product_id)  *)
(* and the friendly sensor's templated state.                              *)
(*                                                                         *)
(* Python values: None is the empty tuple <<>>, a value v that may be None *)
(* is <<v>>.  Python str values are TLA+ strings (Len, \o and SubSeq act   *)
(* on them as on Python strings).  The outcome of a call is a record       *)
(* [exc, val]: exc = "none" and val the returned value, or exc the name of *)
(* the exception that left the call.                                       *)
(***************************************************************************)
EXTENDS Integers, Sequences, FiniteSets, TLC

VARIABLES
    now,            \* the clock utcnow() reads, in minutes
    data,           \* BOMForecastData._data: <<>> until the first assignment
    throttle_last,  \* Throttle's throttle[1]: <<>> or <<time of last completed call>>
    lock,           \* Throttle's throttle[0]: TRUE while a call holds the lock
    pc,             \* per sensor: "idle" | "transfer" | "returned"
    ret,            \* per sensor: how its last update() call ended
    transfers,      \* log of the network transfers update() started
    kind,           \* PRODUCT_ID_LAT_LON_LOCATION[product_id][3] of the cache's product
    query,          \* the last read made of the cache
    table,          \* PRODUCT_ID_LAT_LON_LOCATION as a sequence of entries
    lat, lon,       \* the coordinates handed to closest_product_id
    selected,       \* what closest_product_id returned
    conditions,     \* BOMForecastSensorFriendly._conditions
    template,       \* BOMForecastSensorFriendly._friendly_state_format
    friendly        \* what BOMForecastSensorFriendly.state returned

vars == <<now, data, throttle_last, lock, pc, ret, transfers, kind, query,
          table, lat, lon, selected, conditions, template, friendly>>

cacheVars  == <<now, data, throttle_last, lock, pc, ret, transfers>>
selectVars == <<table, lat, lon, selected>>
friendVars == <<conditions, template, friendly>>
notCache   == <<kind, query, selectVars, friendVars>>

None == <<>>
Some(v) == <<v>>

Returned(v) == [exc |-> "none", val |-> v]
Raised(e) == [exc |-> e, val |-> None]

(***************************************************************************)
(* Bounds of the model.                                                    *)
(***************************************************************************)
NumSensors == 2
MaxTime == 7
MaxTransfers == 2
MaxPeriods == 2
MaxProducts == 3
MaxCoord == 2

Sensors == 1..NumSensors

(***************************************************************************)
(* MIN_TIME_BETWEEN_UPDATES = datetime.timedelta(minutes=5)                *)
(***************************************************************************)
MIN_TIME_BETWEEN_UPDATES == 5

(***************************************************************************)
(* The slice bound of get_reading: s[:251] + '...' if len(s) > 251.        *)
(***************************************************************************)
TRUNCATE_AT == 251

(***************************************************************************)
(* Strings.                                                                *)
(***************************************************************************)
RECURSIVE Repeat(_, _)
Repeat(c, n) ==
    IF n = 0 THEN ""
    ELSE LET half == Repeat(c, n \div 2) IN
         IF n % 2 = 0 THEN half \o half ELSE half \o half \o c

CharAt(s, i) == SubSeq(s, i, i)

IsSpace(c) == c \in {" ", "\n", "\t"}

\* str.strip(): leading and trailing whitespace removed
RECURSIVE LStrip(_)
LStrip(s) ==
    IF Len(s) > 0 /\ IsSpace(CharAt(s, 1)) THEN LStrip(SubSeq(s, 2, Len(s))) ELSE s

RECURSIVE RStrip(_)
RStrip(s) ==
    IF Len(s) > 0 /\ IsSpace(CharAt(s, Len(s)))
    THEN RStrip(SubSeq(s, 1, Len(s) - 1)) ELSE s

Strip(s) == RStrip(LStrip(s))

\* sep.join(parts) for a list of str
RECURSIVE Join(_, _)
Join(sep, parts) ==
    IF Len(parts) = 0 THEN ""
    ELSE IF Len(parts) = 1 THEN parts[1]
    ELSE parts[1] \o sep \o Join(sep, Tail(parts))

(***************************************************************************)
(* SENSOR_TYPES: condition -> the type attribute of its source element.    *)
(***************************************************************************)
Conditions == {"max", "min", "chance_of_rain", "possible_rainfall", "summary",
               "detailed_summary", "uv_alert", "fire_danger", "icon"}

SENSOR_TYPES ==
    [c \in Conditions |->
        CASE c = "max" -> "air_temperature_maximum"
          [] c = "min" -> "air_temperature_minimum"
          [] c = "chance_of_rain" -> "probability_of_precipitation"
          [] c = "possible_rainfall" -> "precipitation_range"
          [] c = "summary" -> "precis"
          [] c = "detailed_summary" -> "forecast"
          [] c = "uv_alert" -> "uv_alert"
          [] c = "fire_danger" -> "fire_danger"
          [] c = "icon" -> "forecast_icon_code"]

SourceTags == {SENSOR_TYPES[c] : c \in Conditions}

\* the fields the "City" layout nests under their own path
CityTags == {"forecast", "uv_alert", "fire_danger"}

(***************************************************************************)
(* The parsed document.  An element is [present, text, children]: present  *)
(* FALSE is find() returning None; text is Element.text (None when the     *)
(* element has no text before its first child); children are its immediate *)
(* child elements [tag, text] in document order.  A document declares the  *)
(* forecast periods 0 .. Len(periods)-1, each with its start-time-local    *)
(* attribute (None: the attribute is missing); gen and city hold the       *)
(* elements of period 0 in the generic and in the "City" layout, and the   *)
(* later periods hold no field elements.                                   *)
(***************************************************************************)
NoElem == [present |-> FALSE, text |-> None, children |-> <<>>]
Elem(t, ch) == [present |-> TRUE, text |-> t, children |-> ch]
Child(tag, t) == [tag |-> tag, text |-> t]

Doc(periods, gen, city) == [periods |-> periods, gen |-> gen, city |-> city]

InPeriod(doc, index) == index \in 0..(Len(doc.periods) - 1)

\* self._data.find(_FIND_QUERY.format(index, tag))
FindQuery(doc, index, tag) ==
    IF InPeriod(doc, index) /\ index = 0 THEN doc.gen[tag] ELSE NoElem

\* self._data.find(_FIND_QUERY_2.format(index)), _FIND_QUERY_3, _FIND_QUERY_4
FindQueryCity(doc, index, tag) ==
    IF InPeriod(doc, index) /\ index = 0 THEN doc.city[tag] ELSE NoElem

\* ICON_MAPPING: icon code -> icon name
ICON_MAPPING ==
    [code \in {"1", "3"} |->
        IF code = "1" THEN "mdi:weather-sunny" ELSE "mdi:weather-partlycloudy"]

(***************************************************************************)
(* BOMForecastData.get_reading                                             *)
(***************************************************************************)
Truncate(s) ==
    IF Len(s) > TRUNCATE_AT THEN SubSeq(s, 1, TRUNCATE_AT) \o "..." ELSE s

\* (s[:251] + '...') if len(s) > 251 else s, for s = element.text
TruncateText(t) ==
    IF t = None THEN Raised("TypeError") ELSE Returned(Some(Truncate(t[1])))

\* lines 308-318: the lookup every condition ends in unless it returned before
ReadOrdinary(doc, condition, index) ==
    LET state == FindQuery(doc, index, SENSOR_TYPES[condition]) IN
    IF condition = "icon"
    THEN IF ~state.present THEN Raised("AttributeError")
         ELSE IF state.text = None THEN Raised("KeyError")
         ELSE IF state.text[1] \notin DOMAIN ICON_MAPPING THEN Raised("KeyError")
         ELSE Returned(Some(ICON_MAPPING[state.text[1]]))
    ELSE IF ~state.present
         THEN IF condition = "possible_rainfall"
              THEN Returned(Some("0 mm")) ELSE Returned(Some("n/a"))
         ELSE TruncateText(state.text)

\* lines 254-261
ReadDetailedSummary(doc, k, index) ==
    LET el == IF k = "City" THEN FindQueryCity(doc, index, "forecast")
              ELSE FindQuery(doc, index, "forecast") IN
    IF ~el.present THEN Raised("AttributeError") ELSE TruncateText(el.text)

\* lines 272-281 and 297-306: the branch of a product that is not "City"
ReadGenericAlert(doc, condition, index) ==
    LET el == FindQuery(doc, index, condition) IN
    IF ~el.present THEN Raised("AttributeError")
    ELSE IF el.text # None THEN Returned(el.text)
    ELSE ReadOrdinary(doc, condition, index)

\* lines 263-271
ReadUvAlertCity(doc, index) ==
    LET el == FindQueryCity(doc, index, "uv_alert") IN
    IF el.present THEN Returned(el.text)
    ELSE ReadOrdinary(doc, "uv_alert", index)

\* fire_danger_data.findall("./p")
Paragraphs(el) == SelectSeq(el.children, LAMBDA ch : ch.tag = "p")

\* lines 283-296
ReadFireDangerCity(doc, index) ==
    LET el == FindQueryCity(doc, index, "fire_danger") IN
    IF ~el.present THEN ReadOrdinary(doc, "fire_danger", index)
    ELSE IF el.text = None THEN Raised("AttributeError")
    ELSE LET fire_danger == Strip(el.text[1])
             paragraphs == Paragraphs(el) IN
         IF fire_danger = ""
         THEN IF \E i \in 1..Len(paragraphs) : paragraphs[i].text = None
              THEN Raised("TypeError")
              ELSE Returned(Some(Join(", ",
                       [i \in 1..Len(paragraphs) |-> paragraphs[i].text[1]])))
         ELSE Returned(Some(fire_danger))

get_reading(d, k, condition, index) ==
    IF d = None THEN Raised("AttributeError")
    ELSE LET doc == d[1] IN
         CASE condition = "detailed_summary" -> ReadDetailedSummary(doc, k, index)
           [] condition = "uv_alert" ->
                IF k = "City" THEN ReadUvAlertCity(doc, index)
                ELSE ReadGenericAlert(doc, "uv_alert", index)
           [] condition = "fire_danger" ->
                IF k = "City" THEN ReadFireDangerCity(doc, index)
                ELSE ReadGenericAlert(doc, "fire_danger", index)
           [] OTHER -> ReadOrdinary(doc, condition, index)

(***************************************************************************)
(* BOMForecastData.get_start_time_local                                    *)
(***************************************************************************)
\* self._data.find("./forecast/area[@type='location']/forecast-period[@index='{}']")
FindPeriod(doc, index) ==
    IF InPeriod(doc, index)
    THEN [present |-> TRUE, start |-> doc.periods[index + 1].start]
    ELSE [present |-> FALSE, start |-> None]

\* a lookup that answers None for a period the document does not declare
get_start_time_local_or_none(d, index) ==
    IF d = None THEN Raised("AttributeError")
    ELSE Returned(FindPeriod(d[1], index).start)

get_start_time_local(d, index) ==
    IF d = None THEN Raised("AttributeError")
    ELSE LET period == FindPeriod(d[1], index) IN
         IF ~period.present THEN Raised("AttributeError")
         ELSE Returned(period.start)


(***************************************************************************)
(* Documents the remote feed serves in the cache's specification, and the  *)
(* values the variables of the other specifications rest at.               *)
(***************************************************************************)
NoFields == [t \in SourceTags |-> NoElem]
NoCityFields == [t \in CityTags |-> NoElem]
Period(start) == [start |-> start]

FeedDocs ==
    { Doc(<<Period(Some("2019-12-01T00:00:00+11:00"))>>,
          [NoFields EXCEPT !["precis"] = Elem(Some(txt), <<>>)], NoCityFields)
      : txt \in {"Sunny", "Showers"} }

NoQuery == [op |-> "none", condition |-> "", index |-> 0, result |-> Returned(None)]

RestRead == kind = "Area" /\ query = NoQuery
RestSelect == table = <<>> /\ lat = 0 /\ lon = 0 /\ selected = None
NoState == [op |-> "none", index |-> 0, result |-> Returned(None)]
RestFriendly == conditions = <<>> /\ template = "" /\ friendly = NoState

(***************************************************************************)
(* @Throttle(MIN_TIME_BETWEEN_UPDATES) around BOMForecastData.update.      *)
(* homeassistant.util.Throttle keeps, per decorated object, a lock and the *)
(* time the wrapped method last returned.  A call that cannot take the     *)
(* lock returns None at once.  Otherwise the method runs when it never     *)
(* returned before or when utcnow() - last > min_time; the time is stamped *)
(* after the method returns, in a try/finally that only releases the lock: *)
(* an exception of the method leaves the stamp as it was and goes on to    *)
(* the caller.                                                             *)
(***************************************************************************)
\* the throttle left out: every call runs the method
MayCallUnthrottled(last, t) == TRUE

\* force or utcnow() - throttle[1] > self.min_time
MayCall(last, t) ==
    IF last = None THEN TRUE ELSE t - last[1] > MIN_TIME_BETWEEN_UPDATES

Running(t) == [start |-> t, end |-> t, outcome |-> "running"]
Finish(log, t, outcome) ==
    [log EXCEPT ![Len(log)] = [@ EXCEPT !.end = t, !.outcome = outcome]]

\* the clock moves on
Tick ==
    /\ now < MaxTime
    /\ now' = now + 1
    /\ UNCHANGED <<data, throttle_last, lock, pc, ret, transfers, notCache>>

\* update() while another call holds the lock: returns None, nothing fetched
UpdateLocked(s) ==
    /\ pc[s] = "idle"
    /\ lock
    /\ pc' = [pc EXCEPT ![s] = "returned"]
    /\ ret' = [ret EXCEPT ![s] = "throttled"]
    /\ UNCHANGED <<now, data, throttle_last, lock, transfers, notCache>>

\* update() inside the throttle window: returns None, nothing fetched
UpdateThrottled(s) ==
    /\ pc[s] = "idle"
    /\ ~lock
    /\ ~MayCall(throttle_last, now)
    /\ pc' = [pc EXCEPT ![s] = "returned"]
    /\ ret' = [ret EXCEPT ![s] = "throttled"]
    /\ UNCHANGED <<now, data, throttle_last, lock, transfers, notCache>>

\* update() passes the throttle: the lock is taken and the FTP transfer starts
UpdateBegin(s) ==
    /\ pc[s] = "idle"
    /\ ~lock
    /\ MayCall(throttle_last, now)
    /\ Len(transfers) < MaxTransfers
    /\ lock' = TRUE
    /\ pc' = [pc EXCEPT ![s] = "transfer"]
    /\ transfers' = Append(transfers, Running(now))
    /\ UNCHANGED <<now, data, throttle_last, ret, notCache>>

\* connect, download and parse succeed: self._data = tree.getroot(), then the
\* wrapper stamps throttle[1] = utcnow() and releases the lock
UpdateOk(s, doc) ==
    /\ pc[s] = "transfer"
    /\ data' = Some(doc)
    /\ throttle_last' = Some(now)
    /\ lock' = FALSE
    /\ pc' = [pc EXCEPT ![s] = "returned"]
    /\ ret' = [ret EXCEPT ![s] = "ok"]
    /\ transfers' = Finish(transfers, now, "ok")
    /\ UNCHANGED <<now, notCache>>

\* a failing update() that drops the cached document
UpdateFailDropsDocument(s) ==
    /\ pc[s] = "transfer"
    /\ data' = None
    /\ lock' = FALSE
    /\ pc' = [pc EXCEPT ![s] = "returned"]
    /\ ret' = [ret EXCEPT ![s] = "raised"]
    /\ transfers' = Finish(transfers, now, "failed")
    /\ UNCHANGED <<now, throttle_last, notCache>>

\* a failing update() that stamps the throttle as a returning one does
UpdateFailStamps(s) ==
    /\ pc[s] = "transfer"
    /\ throttle_last' = Some(now)
    /\ lock' = FALSE
    /\ pc' = [pc EXCEPT ![s] = "returned"]
    /\ ret' = [ret EXCEPT ![s] = "raised"]
    /\ transfers' = Finish(transfers, now, "failed")
    /\ UNCHANGED <<now, data, notCache>>

\* a failing update() whose exception is swallowed once a document is cached
UpdateFailSwallowed(s) ==
    /\ pc[s] = "transfer"
    /\ lock' = FALSE
    /\ pc' = [pc EXCEPT ![s] = "returned"]
    /\ ret' = [ret EXCEPT ![s] = IF data = None THEN "raised" ELSE "throttled"]
    /\ transfers' = Finish(transfers, now, "failed")
    /\ UNCHANGED <<now, data, throttle_last, notCache>>

\* ftplib or the XML parser raises before self._data is assigned: the wrapper
\* releases the lock and the exception leaves update()
UpdateFail(s) ==
    /\ pc[s] = "transfer"
    /\ lock' = FALSE
    /\ pc' = [pc EXCEPT ![s] = "returned"]
    /\ ret' = [ret EXCEPT ![s] = "raised"]
    /\ transfers' = Finish(transfers, now, "failed")
    /\ UNCHANGED <<now, data, throttle_last, notCache>>

\* the sensor is back with the host, which polls it again later
Resume(s) ==
    /\ pc[s] = "returned"
    /\ pc' = [pc EXCEPT ![s] = "idle"]
    /\ ret' = [ret EXCEPT ![s] = "none"]
    /\ UNCHANGED <<now, data, throttle_last, lock, transfers, notCache>>

\* BOMForecastData(product_id): no document yet, update() never called
FreshCache ==
    /\ now = 0
    /\ data = None
    /\ throttle_last = None
    /\ lock = FALSE
    /\ pc = [s \in Sensors |-> "idle"]
    /\ ret = [s \in Sensors |-> "none"]
    /\ transfers = <<>>

Init == FreshCache /\ RestRead /\ RestSelect /\ RestFriendly

Next ==
    \/ Tick
    \/ \E s \in Sensors : UpdateLocked(s)
    \/ \E s \in Sensors : UpdateThrottled(s)
    \/ \E s \in Sensors : UpdateBegin(s)
    \/ \E s \in Sensors, doc \in FeedDocs : UpdateOk(s, doc)
    \/ \E s \in Sensors : UpdateFail(s)
    \/ \E s \in Sensors : Resume(s)

Spec == Init /\ [][Next]_vars


(***************************************************************************)
(* The throttled cache: claims C1 - C4, checked under Spec.                *)
(***************************************************************************)
TransferPairs ==
    {p \in (1..Len(transfers)) \X (1..Len(transfers)) : p[1] < p[2]}

\* sensor s leaves update() in this step
Returns(s) == pc[s] # "returned" /\ pc'[s] = "returned"
\* sensor s leaves update() in this step with its transfer or parse failed
FailStep(s) ==
    /\ pc[s] = "transfer"
    /\ pc'[s] = "returned"
    /\ transfers'[Len(transfers')].outcome = "failed"

C2_SuppressedOrFailedKeepsDocument ==
    [][ /\ \A s \in Sensors :
              (Returns(s) /\ ret'[s] \in {"throttled", "raised"}) => data' = data
        /\ data # None => data' # None ]_vars

\* a refresh failed, and another was suppressed, on a cache that holds a document
C2_Witness ==
    /\ data # None
    /\ \E s, t \in Sensors :
          /\ pc[s] = "returned" /\ ret[s] = "raised"
          /\ pc[t] = "returned" /\ ret[t] = "throttled"

C4_FailureRaisesOnlyWhenEmpty ==
    [][ \A s \in Sensors :
          FailStep(s) => (ret'[s] = "raised" <=> data = None) ]_vars

\* C4 amended: a failure of refresh() always reaches the caller as an error,
\* whether or not a document is cached, and the cached document stays.
C4_FailureAlwaysRaises ==
    [][ \A s \in Sensors :
          FailStep(s) => (ret'[s] = "raised" /\ data' = data) ]_vars

\* a refresh failed on a cache that holds a document, and the caller got the error
C4_Witness ==
    /\ data # None
    /\ Len(transfers) > 0
    /\ transfers[Len(transfers)].outcome = "failed"
    /\ \E s \in Sensors : pc[s] = "returned" /\ ret[s] = "raised"


(***************************************************************************)
(* Reading a cached document: the documents and products the reads are     *)
(* checked on, and the two reads as actions.                               *)
(***************************************************************************)
Kinds == {"City", "Area"}

Whitespace == "\n  "

Texts ==
    {None, Some(Whitespace), Some("1"), Some("Fine"),
     Some(Repeat("x", TRUNCATE_AT)), Some(Repeat("x", TRUNCATE_AT + 1)),
     Some(Repeat("x", 260))}

ChildLists ==
    { <<Child("p", Some("Severe")), Child("p", Some("Extreme"))>>,
      <<Child("zone", Some("Severe")), Child("p", Some("Extreme"))>>,
      <<Child("p", None)>> }

Elems ==
    {NoElem}
    \cup {Elem(t, <<>>) : t \in Texts}
    \cup {Elem(t, ch) : t \in {None, Some(Whitespace)}, ch \in ChildLists}

StartOf(i) == "2019-12-0" \o ToString(i) \o "T00:00:00+11:00"

\* the period lists of length n: period i-1 carries its start time or lacks it
PeriodLists(n) ==
    { [i \in 1..n |-> Period(IF i \in missing THEN None ELSE Some(StartOf(i)))]
      : missing \in SUBSET (1..n) }

\* the documents with periods pl and one field element, of type tag, in
\* period 0: g in the generic layout and c in the "City" layout
DocsOf(pl, tag) ==
    { Doc(pl, [NoFields EXCEPT ![tag] = g],
          IF tag \in CityTags THEN [NoCityFields EXCEPT ![tag] = c]
          ELSE NoCityFields)
      : g \in Elems, c \in IF tag \in CityTags THEN Elems ELSE {NoElem} }

ReadDocs ==
    {Doc(<<>>, NoFields, NoCityFields)}
    \cup UNION { DocsOf(x[1], x[2])
                 : x \in (UNION {PeriodLists(n) : n \in 1..MaxPeriods})
                          \X SourceTags }

Indexes == 0..MaxPeriods

\* a cache whose first update() has succeeded, at rest
RestCache ==
    /\ now = 0
    /\ throttle_last = Some(0)
    /\ lock = FALSE
    /\ pc = [s \in Sensors |-> "idle"]
    /\ ret = [s \in Sensors |-> "none"]
    /\ transfers = <<[start |-> 0, end |-> 0, outcome |-> "ok"]>>

\* BOMForecastSensor.state / device_state_attributes asking for a reading
GetReading(condition, index) ==
    /\ query = NoQuery
    /\ query' = [op |-> "get_reading", condition |-> condition, index |-> index,
                 result |-> get_reading(data, kind, condition, index)]
    /\ UNCHANGED <<cacheVars, kind, selectVars, friendVars>>

\* device_state_attributes asking for the period's start time
GetStartTimeLocal(index) ==
    /\ query = NoQuery
    /\ query' = [op |-> "get_start_time_local", condition |-> "", index |-> index,
                 result |-> get_start_time_local(data, index)]
    /\ UNCHANGED <<cacheVars, kind, selectVars, friendVars>>

\* the host has taken the value; the next read can be made
Taken ==
    /\ query # NoQuery
    /\ query' = NoQuery
    /\ UNCHANGED <<cacheVars, kind, selectVars, friendVars>>

InitRead ==
    /\ RestCache
    /\ data \in {Some(doc) : doc \in ReadDocs}
    /\ kind \in Kinds
    /\ query = NoQuery
    /\ RestSelect /\ RestFriendly

NextRead ==
    \/ \E c \in Conditions, i \in Indexes : GetReading(c, i)
    \/ \E i \in Indexes : GetStartTimeLocal(i)
    \/ Taken

SpecRead == InitRead /\ [][NextRead]_vars

(***************************************************************************)
(* Claims C5, C6, C8, C9, checked under SpecRead.                          *)
(***************************************************************************)
Tag(c) == SENSOR_TYPES[c]

\* the document holds an element for (index, condition), in either layout
HoldsElement(doc, condition, index) ==
    \/ FindQuery(doc, index, Tag(condition)).present
    \/ Tag(condition) \in CityTags /\ FindQueryCity(doc, index, Tag(condition)).present

\* the element a read of (index, condition) is about: for a "City" product the
\* element of the "City" layout when the field has one there
Located(doc, k, condition, index) ==
    IF k = "City" /\ Tag(condition) \in CityTags
    THEN IF condition = "detailed_summary"
            \/ FindQueryCity(doc, index, Tag(condition)).present
         THEN FindQueryCity(doc, index, Tag(condition))
         ELSE FindQuery(doc, index, Tag(condition))
    ELSE FindQuery(doc, index, Tag(condition))

Reading == query.op = "get_reading"

\* C5: when the cached document holds no element for the (day, field) asked
\* for, get_reading raises nothing and returns "n/a", or "0 mm" for
\* possible_rainfall.
C5_AbsentFieldReadsAsSentinel ==
    (Reading /\ ~HoldsElement(data[1], query.condition, query.index)) =>
        query.result = Returned(Some(IF query.condition = "possible_rainfall"
                                     THEN "0 mm" ELSE "n/a"))

\* a field that is absent was read on a declared day and on an undeclared one
C5_Witness ==
    /\ Reading
    /\ ~HoldsElement(data[1], query.condition, query.index)
    /\ query.result = Returned(Some("n/a"))

TextConditions == Conditions \ {"icon"}

\* C6: for every text-valued field the reading is the source text when that
\* has at most 251 characters, and its first 251 characters followed by "..."
\* when it is longer; no reading is longer than 254 characters.
C6_TextTruncatedAt251 ==
    LET el == Located(data[1], kind, query.condition, query.index) IN
    (Reading /\ query.condition \in TextConditions /\ el.present /\ el.text # None) =>
        /\ query.result =
              Returned(Some(IF Len(el.text[1]) <= 251 THEN el.text[1]
                            ELSE SubSeq(el.text[1], 1, 251) \o "..."))
        /\ Len(query.result.val[1]) <= 254

\* C8: a fire_danger element with empty direct text reads as the texts of all
\* its immediate child elements joined with ", ", and the reading is "n/a"
\* only when neither direct text nor any child text is available.
EmptyText(t) == IF t = None THEN TRUE ELSE Strip(t[1]) = ""

ChildTexts(el) ==
    LET withText == SelectSeq(el.children, LAMBDA ch : ch.text # None) IN
    [i \in 1..Len(withText) |-> withText[i].text[1]]

C8_FireDangerJoinsChildTexts ==
    LET el == Located(data[1], kind, "fire_danger", query.index) IN
    (Reading /\ query.condition = "fire_danger" /\ el.present) =>
        /\ (EmptyText(el.text) /\ Len(ChildTexts(el)) > 0) =>
              query.result = Returned(Some(Join(", ", ChildTexts(el))))
        /\ query.result = Returned(Some("n/a")) =>
              (EmptyText(el.text) /\ Len(ChildTexts(el)) = 0)

\* C9: get_start_time_local returns the start-time attribute of the period
\* with the index asked for when the document declares it, and fails with an
\* error, returning nothing, for an index the document declares no period for.
C9_StartTimeOrError ==
    query.op = "get_start_time_local" =>
        IF query.index < Len(data[1].periods)
        THEN query.result = Returned(data[1].periods[query.index + 1].start)
        ELSE query.result.exc # "none"

\* the start time of a period the document does not declare was asked for
C9_Witness ==
    /\ query.op = "get_start_time_local"
    /\ Len(data[1].periods) > 0
    /\ query.index >= Len(data[1].periods)
    /\ query.result = Raised("AttributeError")

\* the start time of a declared period was returned
C9_WitnessDeclared ==
    /\ query.op = "get_start_time_local"
    /\ query.index = 1
    /\ query.result = Returned(Some(StartOf(2)))


(***************************************************************************)
(* closest_product_id.  The product table is the sequence of its entries   *)
(* in iteration order, an entry's position standing for its key; the       *)
(* coordinates are points of an integer grid.                              *)
(***************************************************************************)
\* comparable_dist(product_id)
comparable_dist(tbl, la, lo, product_id) ==
    (la - tbl[product_id].lat) * (la - tbl[product_id].lat)
    + (lo - tbl[product_id].lon) * (lo - tbl[product_id].lon)

\* a scan that lets a later entry of equal distance replace the one held
RECURSIVE MinScanLast(_, _, _, _, _)
MinScanLast(tbl, la, lo, i, best) ==
    IF i > Len(tbl) THEN best
    ELSE MinScanLast(tbl, la, lo, i + 1,
             IF comparable_dist(tbl, la, lo, i) <= comparable_dist(tbl, la, lo, best)
             THEN i ELSE best)

\* min(iterable, key=...): the entry held is replaced only by a smaller one
RECURSIVE MinScan(_, _, _, _, _)
MinScan(tbl, la, lo, i, best) ==
    IF i > Len(tbl) THEN best
    ELSE MinScan(tbl, la, lo, i + 1,
             IF comparable_dist(tbl, la, lo, i) < comparable_dist(tbl, la, lo, best)
             THEN i ELSE best)

closest_product_id(tbl, la, lo) ==
    IF Len(tbl) = 0 THEN Raised("ValueError")
    ELSE Returned(Some(MinScan(tbl, la, lo, 2, 1)))

TablePoints == {[lat |-> a, lon |-> b] : a \in 0..1, b \in -1..1}

ProductTables == UNION {[1..n -> TablePoints] : n \in 1..MaxProducts}

Coords == (-MaxCoord)..MaxCoord

\* setup_platform asking for the product nearest to the configured place
Select ==
    /\ selected = None
    /\ selected' = Some(closest_product_id(table, lat, lon))
    /\ UNCHANGED <<cacheVars, kind, query, table, lat, lon, friendVars>>

InitSelect ==
    /\ FreshCache
    /\ RestRead /\ RestFriendly
    /\ table \in ProductTables
    /\ lat \in Coords
    /\ lon \in Coords
    /\ selected = None

NextSelect == Select

SpecSelect == InitSelect /\ [][NextSelect]_vars

\* C7: for a non-empty table closest_product_id returns the identifier of an
\* entry that minimizes (lat - entry.lat)^2 + (lon - entry.lon)^2 over the
\* table, and of the entries that share the minimum the first in iteration
\* order.
Dist(i) ==
    (lat - table[i].lat) * (lat - table[i].lat)
    + (lon - table[i].lon) * (lon - table[i].lon)

C7_ClosestIsFirstMinimum ==
    selected # None =>
        /\ selected[1].exc = "none"
        /\ selected[1].val # None
        /\ LET id == selected[1].val[1] IN
           /\ id \in 1..Len(table)
           /\ \A j \in 1..Len(table) : Dist(id) <= Dist(j)
           /\ \A j \in 1..(id - 1) : Dist(j) > Dist(id)

\* a tie: the entry returned shares the minimum with a later entry at another
\* place
C7_Witness ==
    /\ selected # None
    /\ \E j \in 1..Len(table) :
          /\ j > selected[1].val[1]
          /\ table[j] # table[selected[1].val[1]]
          /\ Dist(j) = Dist(selected[1].val[1])

\* an exact match: the coordinates are those of the entry returned, which is
\* not the first of the table
C7_WitnessExact ==
    /\ selected # None
    /\ selected[1].val[1] > 1
    /\ Dist(selected[1].val[1]) = 0

(***************************************************************************)
(* BOMForecastSensorFriendly.state                                         *)
(***************************************************************************)
\* str.replace(old, new) for a non-empty old: the occurrences of old, found
\* from the left and not overlapping, replaced by new
RECURSIVE Replace(_, _, _)
Replace(s, old, new) ==
    IF Len(s) < Len(old) THEN s
    ELSE IF SubSeq(s, 1, Len(old)) = old
         THEN new \o Replace(SubSeq(s, Len(old) + 1, Len(s)), old, new)
         ELSE CharAt(s, 1) \o Replace(SubSeq(s, 2, Len(s)), old, new)

\* '{{{}}}'.format(condition)
Placeholder(condition) == "{" \o condition \o "}"

\* the loop of lines 208-211 from condition n on, friendly_state so far
RECURSIVE FriendlyLoop(_, _, _, _, _, _)
FriendlyLoop(d, k, conds, index, n, friendly_state) ==
    IF n > Len(conds) THEN Returned(Some(friendly_state))
    ELSE LET reading == get_reading(d, k, conds[n], index) IN
         IF reading.exc # "none" THEN Raised(reading.exc)
         ELSE IF reading.val = None THEN Raised("TypeError")
         ELSE FriendlyLoop(d, k, conds, index, n + 1,
                  Replace(friendly_state, Placeholder(conds[n]), reading.val[1]))

FriendlyState(d, k, conds, fmt, index) == FriendlyLoop(d, k, conds, index, 1, fmt)

FieldDoc(summary, max) ==
    Doc(<<Period(Some(StartOf(1)))>>,
        [NoFields EXCEPT !["precis"] = summary, !["air_temperature_maximum"] = max],
        NoCityFields)

FriendlyDocs ==
    { FieldDoc(summary, max)
      : summary \in {NoElem, Elem(Some("Sunny"), <<>>), Elem(Some("{max}"), <<>>)},
        max \in {NoElem, Elem(Some("28"), <<>>), Elem(Some("{summary}"), <<>>)} }

ConditionLists ==
    { <<>>, <<"summary">>, <<"max">>, <<"summary", "max">>, <<"max", "summary">> }

Templates ==
    { "{summary}", "{summary} and {max}C", "{max} to {max}", "{min}-{max}", "Forecast" }

\* the host reading the friendly sensor's state
State(index) ==
    /\ friendly = NoState
    /\ friendly' = [op |-> "state", index |-> index,
                    result |-> FriendlyState(data, kind, conditions, template, index)]
    /\ UNCHANGED <<cacheVars, kind, query, selectVars, conditions, template>>

\* the host has written the state; it asks again at the next poll
StateTaken ==
    /\ friendly # NoState
    /\ friendly' = NoState
    /\ UNCHANGED <<cacheVars, kind, query, selectVars, conditions, template>>

InitFriendly ==
    /\ RestCache
    /\ data \in {Some(doc) : doc \in FriendlyDocs}
    /\ RestRead /\ RestSelect
    /\ conditions \in ConditionLists
    /\ template \in Templates
    /\ friendly = NoState

NextFriendly ==
    \/ \E i \in Indexes : State(i)
    \/ StateTaken

SpecFriendly == InitFriendly /\ [][NextFriendly]_vars

\* the template with every occurrence of a configured field's placeholder
\* replaced by that field's reading, in one pass over the template
ConfiguredAt(s, conds) ==
    {n \in 1..Len(conds) :
        /\ Len(s) >= Len(Placeholder(conds[n]))
        /\ SubSeq(s, 1, Len(Placeholder(conds[n]))) = Placeholder(conds[n])}

RECURSIVE Substituted(_, _, _)
Substituted(s, conds, readings) ==
    IF Len(s) = 0 THEN ""
    ELSE IF ConfiguredAt(s, conds) # {}
         THEN LET n == CHOOSE m \in ConfiguredAt(s, conds) : TRUE IN
              readings[n] \o Substituted(
                  SubSeq(s, Len(Placeholder(conds[n])) + 1, Len(s)), conds, readings)
         ELSE CharAt(s, 1) \o Substituted(SubSeq(s, 2, Len(s)), conds, readings)

ReadingsOf(conds, index) ==
    [n \in 1..Len(conds) |-> get_reading(data, kind, conds[n], index)]

\* C10: the friendly state is the template with every occurrence of each
\* configured field's placeholder replaced by that field's reading for the day,
\* and all other template text unchanged.
C10_FriendlyStateSubstitutesReadings ==
    LET readings == ReadingsOf(conditions, friendly.index) IN
    (/\ friendly.op = "state"
     /\ \A n \in 1..Len(conditions) :
           readings[n].exc = "none" /\ readings[n].val # None) =>
        friendly.result =
            Returned(Some(Substituted(template, conditions,
                [n \in 1..Len(conditions) |-> readings[n].val[1]])))

\* the example: "{summary} and {max}C" with "Sunny" and "28"
C10_Witness ==
    /\ friendly.op = "state"
    /\ template = "{summary} and {max}C"
    /\ Len(conditions) = 2
    /\ friendly.result = Returned(Some("Sunny and 28C"))


====
